---- MODULE Spec2Model ----
(***************************************************************************)
(* State-machine model of app.py (AI Career Companion).                    *)
(*                                                                         *)
(* A Streamlit session re-runs create_streamlit_app once per widget event. *)
(* One such run ("pass") is modelled as the steps                          *)
(*   BeginPass    read the widgets, line 230, write the resume temp file   *)
(*   SaveJob      write the job temp file                                  *)
(*   ExtractResume / ExtractJob   the two extract_text_from_file calls     *)
(*   Render       lines 246-335: selection, generate, follow-up chat       *)
(* The temp files live in the host's working directory and are shared by   *)
(* every session; everything else is per session.                          *)
(*                                                                         *)
(* Strings whose characters matter (file names, model replies, grammar     *)
(* messages) are sequences of one-character strings.  Extracted document   *)
(* text is a sequence of words.  A Python dict is a function whose DOMAIN  *)
(* is its key set.                                                         *)
(***************************************************************************)
EXTENDS Naturals, Sequences, FiniteSets

\* ---------------------------------------------------------------- bounds
\* Sessions are 1..NumSessions below; passes a session may run under Spec.
MaxPasses == 5
\* Passes session 1 may run under SpecConc; session 2 may run one fewer.
ConcPasses == 2
\* Longest transcript for which a further follow-up question is accepted.
MaxTurns == 3
\* Longest list of matches the grammar endpoint returns under SpecGrammar.
MaxMatches == 2

Sessions == {1, 2}

\* Python's None.
None == "None"

\* ------------------------------------------------------- character strings
UpperCase == <<"A", "B", "C", "D", "E", "F", "G", "H", "I", "J", "K", "L", "M",
               "N", "O", "P", "Q", "R", "S", "T", "U", "V", "W", "X", "Y", "Z">>
LowerCase == <<"a", "b", "c", "d", "e", "f", "g", "h", "i", "j", "k", "l", "m",
               "n", "o", "p", "q", "r", "s", "t", "u", "v", "w", "x", "y", "z">>

\* str.lower() on one character.
LowerChar(c) ==
    IF \E i \in 1..26 : UpperCase[i] = c
    THEN LowerCase[CHOOSE i \in 1..26 : UpperCase[i] = c]
    ELSE c

\* str.lower()
Lower(str) == [i \in 1..Len(str) |-> LowerChar(str[i])]

\* Python's `sub in str`: sub occurs as a contiguous slice of str.
Contains(str, sub) ==
    \E i \in 0..Len(str) :
        /\ i + Len(sub) <= Len(str)
        /\ SubSeq(str, i + 1, i + Len(sub)) = sub

\* Characters str.strip() removes.
Whitespace == {" ", "\n", "\t"}

RECURSIVE LStrip(_)
LStrip(str) ==
    IF str # <<>> /\ Head(str) \in Whitespace THEN LStrip(Tail(str)) ELSE str

RECURSIVE RStrip(_)
RStrip(str) ==
    IF str # <<>> /\ str[Len(str)] \in Whitespace
    THEN RStrip(SubSeq(str, 1, Len(str) - 1))
    ELSE str

\* Faulty variant of Strip: only leading whitespace goes (str.lstrip()).
StripLeading(str) == LStrip(str)

\* str.strip()
Strip(str) == RStrip(LStrip(str))

\* ------------------------------------------------------------- documents
\* A file body is [kind, parts]:
\*   "pdf"   parts are the pages, each [ok, text]; ok = FALSE is a page whose
\*           extract_text() raises
\*   "docx"  parts are the paragraphs
\*   "utf8"  one part, the decoded text
\*   "bytes" bytes that are neither a PDF, nor a DOCX, nor valid UTF-8
Part(ok, text) == [ok |-> ok, text |-> text]
Body(kind, parts) == [kind |-> kind, parts |-> parts]

\* A path or an upload name is the sequence of its "."-separated components.
pdf == <<"p", "d", "f">>
docx == <<"d", "o", "c", "x">>
txt == <<"t", "x", "t">>
rtf == <<"r", "t", "f">>

\* str.endswith("." + ext) on path.lower()
EndsWithExt(path, ext) ==
    /\ Len(path) >= 2
    /\ Lower(path[Len(path)]) = ext

\* The loop of extract_text_from_pdf: text grows page by page; the first page
\* that raises leaves the loop with the text read so far.
RECURSIVE PdfPages(_, _)
PdfPages(pages, text) ==
    IF pages = <<>> THEN text
    ELSE IF ~Head(pages).ok THEN text
    ELSE PdfPages(Tail(pages), text \o Head(pages).text)

\* extract_text_from_pdf: every exception is caught; the text so far is returned.
extract_text_from_pdf(fs, pdf_path) ==
    IF pdf_path \notin DOMAIN fs THEN <<>>
    ELSE IF fs[pdf_path].kind # "pdf" THEN <<>>
    ELSE PdfPages(fs[pdf_path].parts, <<>>)

\* The loop of extract_text_from_docx: each paragraph's text and a line break.
RECURSIVE DocxParagraphs(_, _)
DocxParagraphs(paras, text) ==
    IF paras = <<>> THEN text
    ELSE DocxParagraphs(Tail(paras), text \o Head(paras).text \o <<"\n">>)

\* extract_text_from_docx: every exception is caught; the text so far is returned.
extract_text_from_docx(fs, docx_path) ==
    IF docx_path \notin DOMAIN fs THEN <<>>
    ELSE IF fs[docx_path].kind # "docx" THEN <<>>
    ELSE DocxParagraphs(fs[docx_path].parts, <<>>)

\* The outcome of a call: the exception that left it (None when it returned)
\* and the value returned.
Returned(value) == [raised |-> None, value |-> value]
Raised(exception) == [raised |-> exception, value |-> <<>>]

\* The .txt branch: open(..., encoding='utf-8').read(), nothing caught.
ReadUtf8(fs, file_path) ==
    IF file_path \notin DOMAIN fs THEN Raised("FileNotFoundError")
    ELSE IF fs[file_path].kind = "utf8" THEN Returned(fs[file_path].parts[1].text)
    ELSE Raised("UnicodeDecodeError")

\* Faulty variant of extract_text_from_file: an unknown extension yields empty
\* text instead of raising.
extract_text_lenient(fs, file_path) ==
    IF EndsWithExt(file_path, pdf) THEN Returned(extract_text_from_pdf(fs, file_path))
    ELSE IF EndsWithExt(file_path, docx) THEN Returned(extract_text_from_docx(fs, file_path))
    ELSE IF EndsWithExt(file_path, txt) THEN ReadUtf8(fs, file_path)
    ELSE Returned(<<>>)

\* extract_text_from_file
extract_text_from_file(fs, file_path) ==
    IF EndsWithExt(file_path, pdf) THEN Returned(extract_text_from_pdf(fs, file_path))
    ELSE IF EndsWithExt(file_path, docx) THEN Returned(extract_text_from_docx(fs, file_path))
    ELSE IF EndsWithExt(file_path, txt) THEN ReadUtf8(fs, file_path)
    ELSE Raised("ValueError")

\* ----------------------------------------------------------- model calls
\* A prompt is the template that was formatted and the values interpolated
\* into it; a field the template does not interpolate is empty.
Prompt(template, industry, question, resume_text, job_description) ==
    [template |-> template, industry |-> industry, question |-> question,
     resume |-> resume_text, job |-> job_description]

\* What model.generate_content(prompt) followed by .text can do: return the
\* reply text, or raise.  The replies the remote model may give:
Replies == { <<>>, <<" ">>, <<"T">>, <<" ", "T", " ", "H", "\n">> }
Outcomes == [ok : {TRUE}, text : Replies] \cup [ok : {FALSE}, text : {<<>>}]

\* One call of the model: the prompt sent and what came back.
Call(prompt, outcome) == [prompt |-> prompt, reply |-> outcome]

\* The result of a function that calls the model: the exception that left it
\* (None when it returned), its return value, and the calls it made, in order.
Done(value, calls) == [raised |-> None, value |-> value, calls |-> calls]
Failed(exception, calls) == [raised |-> exception, value |-> <<>>, calls |-> calls]

\* The shape shared by the five single-call functions: format the template,
\* call the model once, return response.text.
SingleCall(template, outcome, resume_text, job_description) ==
    LET prompt == Prompt(template, <<>>, <<>>, resume_text, job_description)
    IN  IF outcome.ok THEN Done(outcome.text, <<Call(prompt, outcome)>>)
        ELSE Failed("ModelError", <<Call(prompt, outcome)>>)

analyze_resume_job_match(outcome, resume_text, job_description) ==
    SingleCall("analyze_resume_job_match", outcome, resume_text, job_description)

analyze_skill_gaps_with_resources(outcome, resume_text, job_description) ==
    SingleCall("analyze_skill_gaps_with_resources", outcome, resume_text, job_description)

generate_cover_letter(outcome, resume_text, job_description) ==
    SingleCall("generate_cover_letter", outcome, resume_text, job_description)

generate_interview_prep(outcome, resume_text, job_description) ==
    SingleCall("generate_interview_prep", outcome, resume_text, job_description)

generate_resume_versions(outcome, resume_text, job_description) ==
    SingleCall("generate_resume_versions", outcome, resume_text, job_description)

\* get_industry_specific_feedback: outcomes[1] answers the industry prompt,
\* outcomes[2] the feedback prompt.
get_industry_specific_feedback(outcomes, resume_text, job_description) ==
    LET industry_prompt == Prompt("industry_prompt", <<>>, <<>>, <<>>, job_description)
        first == Call(industry_prompt, outcomes[1])
    IN  IF ~outcomes[1].ok THEN Failed("ModelError", <<first>>)
        ELSE LET industry == Strip(outcomes[1].text)
                 feedback_prompt ==
                     Prompt("feedback_prompt", industry, <<>>, resume_text, job_description)
                 second == Call(feedback_prompt, outcomes[2])
             IN  IF ~outcomes[2].ok THEN Failed("ModelError", <<first, second>>)
                 ELSE Done(outcomes[2].text, <<first, second>>)

\* ---------------------------------------------------------- grammar check
\* A dict with no key.
EmptyDict == [k \in {} |-> "None"]

Min(a, b) == IF a <= b THEN a ELSE b

\* Python's str[lo:hi] for lo, hi >= 0: indices past the end are clamped.
Slice(str, lo, hi) == SubSeq(str, Min(lo, Len(str)) + 1, Min(hi, Len(str)))

\* sep.join(strs)
RECURSIVE Join(_, _)
Join(strs, sep) ==
    IF strs = <<>> THEN <<>>
    ELSE IF Len(strs) = 1 THEN strs[1]
    ELSE strs[1] \o sep \o Join(Tail(strs), sep)

\* Faulty variant of Ignored: the message is not lower-cased first.
IgnoredCaseSensitive(message, replacements) ==
    replacements = <<>> \/ Contains(message, <<"w", "h", "i", "t", "e", "s", "p", "a", "c", "e">>)

\* Line 170: the matches the loop skips.
Ignored(message, replacements) ==
    replacements = <<>> \/ Contains(Lower(message), <<"w", "h", "i", "t", "e", "s", "p", "a", "c", "e">>)

\* Lines 173-179: one entry of the report.  The literal pieces of the f-string
\* are single tokens.
Issue(message, replacements, sentence, offset, length) ==
    LET suggestions == Join([i \in 1..Len(replacements) |-> replacements[i].value],
                            <<",", " ">>)
        highlighted == Slice(sentence, 0, offset) \o <<"**">>
                       \o Slice(sentence, offset, offset + length) \o <<"**">>
                       \o Slice(sentence, offset + length, Len(sentence))
    IN  <<"Issue: ">> \o message \o <<"\n", "Line: ">> \o highlighted
        \o <<"\n", "Suggestion: ">> \o suggestions \o <<"\n">>

\* Lines 160-180: the loop over result.get('matches', []).
RECURSIVE GrammarIssues(_, _)
GrammarIssues(ms, grammar_issues) ==
    IF ms = <<>> THEN grammar_issues
    ELSE LET match == Head(ms)
             message == IF "message" \in DOMAIN match THEN match.message ELSE <<>>
             replacements == IF "replacements" \in DOMAIN match
                             THEN match.replacements ELSE <<>>
             context == IF "context" \in DOMAIN match
                        THEN match.context
                        ELSE [text |-> <<>>, offset |-> 0, length |-> 0]
         IN  IF Ignored(message, replacements)
             THEN GrammarIssues(Tail(ms), grammar_issues)
             ELSE GrammarIssues(Tail(ms),
                      Append(grammar_issues,
                             Issue(message, replacements, context.text,
                                   context.offset, context.length)))

NoIssuesReport == <<"No major grammar issues found!">>
IssuesHeader == <<"### Grammar Issues Found:", "\n", "\n">>

\* grammar_check_resume.  `resp` is what the POST and response.json() brought
\* back: [ok |-> FALSE] when either raised, else the parsed JSON object.
grammar_check_resume(resp) ==
    IF ~resp.ok THEN <<"Error checking grammar: ", "exception">>
    ELSE LET result == resp.json
             grammar_issues ==
                 GrammarIssues(IF "matches" \in DOMAIN result THEN result.matches ELSE <<>>,
                               <<>>)
         IN  IF grammar_issues = <<>> THEN NoIssuesReport
             ELSE IssuesHeader \o Join(grammar_issues, <<"\n">>)

\* The match objects of the endpoint's response format (message, replacements
\* as a list of {value}, context {text, offset, length}), some with a field left
\* out.
Replacement(value) == [value |-> value]
Context(text, offset, length) == [text |-> text, offset |-> offset, length |-> length]
GrammarMatches ==
    LET ctx == Context(<<"a", " ", "c", "a", "t">>, 2, 3)
        fix == << Replacement(<<"c", "a", "t", "s">>), Replacement(<<"d", "o", "g">>) >>
    IN  { [message |-> <<"t", "y", "p", "o">>, replacements |-> fix, context |-> ctx],
          [message |-> <<"t", "y", "p", "o">>, replacements |-> <<>>, context |-> ctx],
          [message |-> <<"W", "h", "i", "t", "e", "s", "p", "a", "c", "e">>,
           replacements |-> fix, context |-> ctx],
          [message |-> <<"2", " ", "w", "h", "i", "t", "E", "S", "P", "A", "C", "E", "s">>,
           replacements |-> <<Replacement(<<" ">>)>>, context |-> Context(<<"a", " ", " ", "b">>, 1, 9)],
          [message |-> <<"w", "h", "i", "t", "e", " ", "s", "p", "a", "c", "e">>,
           replacements |-> <<Replacement(<<"-">>)>>, context |-> Context(<<"a", "b">>, 5, 1)],
          [replacements |-> fix],
          [message |-> <<"s", "t", "y", "l", "e">>, context |-> ctx] }

\* What requests.post(...) and response.json() can bring back.
NoResponse == [ok |-> FALSE, json |-> EmptyDict]
GrammarResponses ==
    { NoResponse, [ok |-> TRUE, json |-> EmptyDict] }
        \cup { [ok |-> TRUE, json |-> [matches |-> ms]] :
                 ms \in UNION { [1..n -> GrammarMatches] : n \in 0..MaxMatches } }

\* ----------------------------------------------------------- UI session
VARIABLES
    files,            \* the host's working directory: path -> body
    pc,               \* per session: where the current pass stands
    remaining,        \* per session: passes it may still start
    uploaded_job,     \* per session: the job upload of the pass
    resume_file,      \* per session: path of the resume temp file
    job_file,         \* per session: path of the job temp file
    resume_text,      \* per session: text extracted from resume_file
    job_description,  \* per session: text extracted from job_file
    session_state,    \* per session: st.session_state, a dict
    shown,            \* per session: widgets on the page when the pass ended
    event,            \* per session: what the pass's widgets returned (lines 253-305)
    state_before,     \* per session: st.session_state as the pass found it (history)
    calls,            \* per session: the model calls of the pass, in order
    error,            \* per session: the exception that ended the pass, or None
    response,         \* grammar_check_resume: what requests.post(...) brought back
    report            \* grammar_check_resume: its return value

\* The per-session variables describe the session's current pass or, between
\* passes, its last one.
vars == <<files, pc, remaining, uploaded_job, resume_file, job_file, resume_text,
          job_description, session_state, shown, event, state_before, calls, error,
          response, report>>

grammarVars == <<response, report>>

\* The options of st.selectbox, in order.
Kinds == <<"Basic Resume Analysis", "Skill Gap Analysis", "Cover Letter Generation",
           "Interview Preparation", "Resume Versions", "Industry-Specific Feedback",
           "Grammar Check on Resume">>
KindSet == {Kinds[i] : i \in DOMAIN Kinds}

\* dict[key] = value, dict.pop(key, None), dict.get(key, default)
Put(dict, key, value) ==
    [k \in DOMAIN dict \cup {key} |-> IF k = key THEN value ELSE dict[k]]
Pop(dict, key) == [k \in DOMAIN dict \ {key} |-> dict[k]]
Get(dict, key, default) == IF key \in DOMAIN dict THEN dict[key] ELSE default

\* What the users upload.  An upload is its file name and its bytes; NoUpload
\* is the None of an empty st.file_uploader.  The code below the uploaders
\* takes the name as it arrives: the extension in any letter case, or one that
\* extract_text_from_file does not know.
Upload(name, body) == [name |-> name, body |-> body]
NoUpload == Upload(<<>>, Body("none", <<>>))
ResumeWord(s) == IF s = 1 THEN "resume-of-1" ELSE "resume-of-2"
JobWord(s) == IF s = 1 THEN "job-of-1" ELSE "job-of-2"
ResumeUploads(s) ==
    { Upload(<< <<"c", "v">>, <<"v", "2">>, <<"P", "D", "F">> >>,
             Body("pdf", << Part(TRUE, <<ResumeWord(s)>>), Part(TRUE, <<"page-2">>),
                            Part(FALSE, <<"page-3">>) >>)),
      Upload(<< <<"c", "v">>, txt >>, Body("bytes", <<>>)),
      Upload(<< <<"c", "v">>, rtf >>, Body("bytes", <<>>)) }
JobUploads(s) ==
    { Upload(<< <<"j", "o", "b">>, docx >>,
             Body("docx", << Part(TRUE, <<JobWord(s)>>), Part(TRUE, <<"senior">>) >>)),
      Upload(<< <<"j", "o", "b">>, rtf >>, Body("bytes", <<>>)) }
ApiKeys == { <<>>, <<"k", "e", "y">> }

\* The follow-up questions a user may type.
Questions == { <<"w", "h", "y", "?">>, <<"h", "o", "w", "?">> }

\* Faulty variant of TempName: the whole upload name is appended.
TempNameWholeName(slot, name) == <<slot>> \o name

\* f"temp_resume.{name.split('.')[-1]}" and f"temp_job.{...}"
TempName(slot, name) == << slot, name[Len(name)] >>
temp_resume == <<"t", "e", "m", "p", "_", "r", "e", "s", "u", "m", "e">>
temp_job == <<"t", "e", "m", "p", "_", "j", "o", "b">>

\* open(path, "wb") and f.write(...)
WriteFile(fs, path, body) == Put(fs, path, body)

\* Faulty variant of SelectKind: a changed selection drops the result only.
SelectKindKeepsTranscript(ss, analysis_type) ==
    LET ss1 == IF "prev_analysis_type" \notin DOMAIN ss
               THEN Put(ss, "prev_analysis_type", None)
               ELSE ss
    IN  IF ss1["prev_analysis_type"] # analysis_type
        THEN Pop(Put(ss1, "prev_analysis_type", analysis_type), "result")
        ELSE ss1

\* Lines 249-263: record the selection; a changed selection drops the stored
\* result and transcript.
SelectKind(ss, analysis_type) ==
    LET ss1 == IF "prev_analysis_type" \notin DOMAIN ss
               THEN Put(ss, "prev_analysis_type", None)
               ELSE ss
    IN  IF ss1["prev_analysis_type"] # analysis_type
        THEN Pop(Pop(Put(ss1, "prev_analysis_type", analysis_type), "result"), "messages")
        ELSE ss1

\* Lines 267-280: the if/elif chain.  No branch assigns `result` for
\* "Grammar Check on Resume" (its branch is commented out), so line 284 reads an
\* unassigned local.
Dispatch(analysis_type, outcomes, text, job) ==
    IF analysis_type = "Basic Resume Analysis"
    THEN analyze_resume_job_match(outcomes[1], text, job)
    ELSE IF analysis_type = "Skill Gap Analysis"
    THEN analyze_skill_gaps_with_resources(outcomes[1], text, job)
    ELSE IF analysis_type = "Cover Letter Generation"
    THEN generate_cover_letter(outcomes[1], text, job)
    ELSE IF analysis_type = "Interview Preparation"
    THEN generate_interview_prep(outcomes[1], text, job)
    ELSE IF analysis_type = "Resume Versions"
    THEN generate_resume_versions(outcomes[1], text, job)
    ELSE IF analysis_type = "Industry-Specific Feedback"
    THEN get_industry_specific_feedback(outcomes, text, job)
    ELSE Failed("UnboundLocalError", <<>>)

\* The outcome of a stretch of the pass: the exception that left it (None when
\* it ran to its end), the session state it leaves, the model calls it made.
Step(raised, ss, sent) == [raised |-> raised, ss |-> ss, calls |-> sent]

\* Faulty variant of StoreResult: the transcript is not reset.
StoreResultOnly(ss, result) == Put(ss, "result", result)

\* Lines 283-291: store the result, then an empty transcript.
StoreResult(ss, result) == Put(Put(ss, "result", result), "messages", <<>>)

\* Lines 265-291: the "Generate Analysis" button.
Generate(ss, button, analysis_type, outcomes, text, job) ==
    IF ~button THEN Step(None, ss, <<>>)
    ELSE LET r == Dispatch(analysis_type, outcomes, text, job)
         IN  IF r.raised # None THEN Step(r.raised, ss, r.calls)
             ELSE Step(None, StoreResult(ss, r.value), r.calls)

\* st.session_state.messages.append({"role": ..., "content": ...})
AppendMessage(ss, role, content) ==
    Put(ss, "messages", Append(ss["messages"], [role |-> role, content |-> content]))

\* Faulty variant of FollowUpPrompt: the earlier turns are fed back to the model.
FollowUpPromptWithTranscript(ss, user_question, text, job) ==
    Prompt("follow_up", <<>>,
           Join([i \in 1..Len(ss["messages"]) |-> ss["messages"][i].content], <<"\n">>)
               \o user_question,
           text, job)

\* Lines 316-326: the follow-up prompt.  st.session_state (ss) is in scope
\* there and is not read.
FollowUpPrompt(ss, user_question, text, job) ==
    Prompt("follow_up", <<>>, user_question, text, job)

\* Lines 294-335: the follow-up chat.  user_question is <<>> when nothing was
\* submitted.  Line 300 reads st.session_state.messages.
Chat(ss, user_question, outcome, text, job) ==
    IF "result" \notin DOMAIN ss THEN Step(None, ss, <<>>)
    ELSE IF "messages" \notin DOMAIN ss THEN Step("AttributeError", ss, <<>>)
    ELSE IF user_question = <<>> THEN Step(None, ss, <<>>)
    ELSE LET ss1 == AppendMessage(ss, "user", user_question)
             prompt == FollowUpPrompt(ss, user_question, text, job)
         IN  IF ~outcome.ok THEN Step("ModelError", ss1, <<Call(prompt, outcome)>>)
             ELSE Step(None, AppendMessage(ss1, "assistant", outcome.text),
                       <<Call(prompt, outcome)>>)

\* The widgets a pass that reached line 253 has rendered when it ends: the chat
\* input only when the pass reached line 305.
Rendered(generated) ==
    {"selectbox", "button"}
        \cup (IF /\ generated.raised = None
                 /\ "result" \in DOMAIN generated.ss
                 /\ "messages" \in DOMAIN generated.ss
              THEN {"chat_input"} ELSE {})

\* One widget event starts a pass.  The selectbox keeps its value between
\* passes; the button is TRUE and the chat input non-empty only in the pass
\* their own event started, and only a widget that is on the page can be used.
Event(analysis_type, button, user_question) ==
    [analysis_type |-> analysis_type, button |-> button, user_question |-> user_question]
NoEvent == Event(None, FALSE, <<>>)
Events(ss, widgets) ==
    LET prev == Get(ss, "prev_analysis_type", None)
        kept == IF "selectbox" \in widgets THEN {prev}
                ELSE {Kinds[1]} \cup ({prev} \cap KindSet)
    IN  \* a rerun that leaves the selection alone (another widget changed)
        { Event(k, FALSE, <<>>) : k \in kept }
        \* the user picks an option
        \cup { Event(k, FALSE, <<>>) : k \in IF "selectbox" \in widgets THEN KindSet ELSE {} }
        \* the user presses "Generate Analysis"
        \cup (IF "button" \in widgets THEN {Event(prev, TRUE, <<>>)} ELSE {})
        \* the user submits a follow-up question
        \cup { Event(prev, FALSE, q) :
                 q \in IF /\ "chat_input" \in widgets
                          /\ Len(Get(ss, "messages", <<>>)) < MaxTurns
                       THEN Questions ELSE {} }

\* The model calls a pass with this event can reach, each with a free outcome:
\* outcomes[1] and outcomes[2] answer the calls of "Generate Analysis" (the
\* second is the feedback call of the industry pipeline), outcomes[3] answers
\* the follow-up call.  A call the pass cannot reach has no outcome to choose.
NoCall == [ok |-> FALSE, text |-> <<>>]
OutcomesOf(called) == IF called THEN Outcomes ELSE {NoCall}
PassOutcomes(ev) ==
    { <<o1, o2, o3>> :
        o1 \in OutcomesOf(ev.button),
        o2 \in OutcomesOf(ev.button /\ ev.analysis_type = "Industry-Specific Feedback"),
        o3 \in OutcomesOf(ev.user_question # <<>>) }

\* ---------------------------------------------------------------- actions
\* The session state before the first pass, with no grammar check in progress.
Idle(budget) ==
    /\ files = EmptyDict
    /\ pc = [s \in Sessions |-> "idle"]
    /\ remaining = budget
    /\ uploaded_job = [s \in Sessions |-> NoUpload]
    /\ resume_file = [s \in Sessions |-> <<>>]
    /\ job_file = [s \in Sessions |-> <<>>]
    /\ resume_text = [s \in Sessions |-> <<>>]
    /\ job_description = [s \in Sessions |-> <<>>]
    /\ session_state = [s \in Sessions |-> EmptyDict]
    /\ shown = [s \in Sessions |-> {}]
    /\ event = [s \in Sessions |-> NoEvent]
    /\ state_before = [s \in Sessions |-> EmptyDict]
    /\ calls = [s \in Sessions |-> <<>>]
    /\ error = [s \in Sessions |-> None]

\* The pass is over, left by `raised` (None: it ran to its end) with `widgets`
\* on the page below the three inputs.
EndPass(s, raised, widgets) ==
    /\ pc' = [pc EXCEPT ![s] = "idle"]
    /\ error' = [error EXCEPT ![s] = raised]
    /\ shown' = [shown EXCEPT ![s] = widgets]

\* A pass starts: nothing is left of the locals of the pass before it.
StartPass(s) ==
    /\ remaining' = [remaining EXCEPT ![s] = @ - 1]
    /\ state_before' = [state_before EXCEPT ![s] = session_state[s]]
    /\ event' = [event EXCEPT ![s] = NoEvent]
    /\ calls' = [calls EXCEPT ![s] = <<>>]
    /\ job_file' = [job_file EXCEPT ![s] = <<>>]
    /\ resume_text' = [resume_text EXCEPT ![s] = <<>>]
    /\ job_description' = [job_description EXCEPT ![s] = <<>>]

\* Lines 225-230 with a widget empty: the pass renders the three inputs only.
EmptyPass(s) ==
    /\ pc[s] = "idle"
    /\ remaining[s] > 0
    /\ { in \in ApiKeys \X (ResumeUploads(s) \cup {NoUpload}) \X (JobUploads(s) \cup {NoUpload}) :
            ~(in[1] # <<>> /\ in[2] # NoUpload /\ in[3] # NoUpload) } # {}
    /\ StartPass(s)
    /\ EndPass(s, None, {})
    /\ uploaded_job' = [uploaded_job EXCEPT ![s] = NoUpload]
    /\ resume_file' = [resume_file EXCEPT ![s] = <<>>]
    /\ UNCHANGED <<files, session_state, grammarVars>>

\* Lines 225-233: all three inputs are there; the resume upload is written to
\* its temp file.
BeginPass(s) ==
    /\ pc[s] = "idle"
    /\ remaining[s] > 0
    /\ \E api_key \in ApiKeys \ {<<>>}, uploaded_resume \in ResumeUploads(s),
          job \in JobUploads(s) :
          /\ files' = WriteFile(files, TempName(temp_resume, uploaded_resume.name),
                                uploaded_resume.body)
          /\ resume_file' = [resume_file EXCEPT
                                ![s] = TempName(temp_resume, uploaded_resume.name)]
          /\ uploaded_job' = [uploaded_job EXCEPT ![s] = job]
    /\ StartPass(s)
    /\ pc' = [pc EXCEPT ![s] = "save_job"]
    /\ error' = [error EXCEPT ![s] = None]
    /\ UNCHANGED <<shown, session_state, grammarVars>>

\* Lines 234-239: the job upload is written to its temp file.
SaveJob(s) ==
    /\ pc[s] = "save_job"
    /\ files' = WriteFile(files, TempName(temp_job, uploaded_job[s].name), uploaded_job[s].body)
    /\ job_file' = [job_file EXCEPT ![s] = TempName(temp_job, uploaded_job[s].name)]
    /\ pc' = [pc EXCEPT ![s] = "extract_resume"]
    /\ UNCHANGED <<remaining, uploaded_job, resume_file, resume_text, job_description,
                   session_state, shown, event, state_before, calls, error, grammarVars>>

\* Line 242
ExtractResume(s) ==
    /\ pc[s] = "extract_resume"
    /\ LET r == extract_text_from_file(files, resume_file[s])
       IN  IF r.raised # None
           THEN /\ EndPass(s, r.raised, {})
                /\ UNCHANGED resume_text
           ELSE /\ resume_text' = [resume_text EXCEPT ![s] = r.value]
                /\ pc' = [pc EXCEPT ![s] = "extract_job"]
                /\ UNCHANGED <<error, shown>>
    /\ UNCHANGED <<files, remaining, uploaded_job, resume_file, job_file, job_description,
                   session_state, event, state_before, calls, grammarVars>>

\* Line 243
ExtractJob(s) ==
    /\ pc[s] = "extract_job"
    /\ LET r == extract_text_from_file(files, job_file[s])
       IN  IF r.raised # None
           THEN /\ EndPass(s, r.raised, {})
                /\ UNCHANGED job_description
           ELSE /\ job_description' = [job_description EXCEPT ![s] = r.value]
                /\ pc' = [pc EXCEPT ![s] = "render"]
                /\ UNCHANGED <<error, shown>>
    /\ UNCHANGED <<files, remaining, uploaded_job, resume_file, job_file, resume_text,
                   session_state, event, state_before, calls, grammarVars>>

\* Lines 245-335: the rest of the pass.  An exception ends the pass where it
\* is raised; what was stored before it stays stored.
Render(s) ==
    /\ pc[s] = "render"
    /\ \E ev \in Events(session_state[s], shown[s]) : \E outcomes \in PassOutcomes(ev) :
          LET selected == SelectKind(session_state[s], ev.analysis_type)
              generated == Generate(selected, ev.button, ev.analysis_type, outcomes,
                                    resume_text[s], job_description[s])
              chatted == IF generated.raised # None THEN generated
                         ELSE Chat(generated.ss, ev.user_question, outcomes[3],
                                   resume_text[s], job_description[s])
          IN  /\ event' = [event EXCEPT ![s] = ev]
              /\ session_state' = [session_state EXCEPT ![s] = chatted.ss]
              /\ calls' = [calls EXCEPT
                              ![s] = IF generated.raised # None THEN generated.calls
                                     ELSE generated.calls \o chatted.calls]
              /\ EndPass(s, chatted.raised, Rendered(generated))
    /\ UNCHANGED <<files, remaining, uploaded_job, resume_file, job_file, resume_text,
                   job_description, state_before, grammarVars>>

Init ==
    /\ Idle([s \in Sessions |-> IF s = 1 THEN MaxPasses ELSE 0])
    /\ response = NoResponse
    /\ report = <<>>

Next ==
    \E s \in Sessions :
        \/ EmptyPass(s)
        \/ BeginPass(s)
        \/ SaveJob(s)
        \/ ExtractResume(s)
        \/ ExtractJob(s)
        \/ Render(s)

Spec == Init /\ [][Next]_vars

\* Two sessions of the same host, each running a few passes, interleaved at
\* the file operations.
InitConc ==
    /\ Idle([s \in Sessions |-> IF s = 1 THEN ConcPasses ELSE ConcPasses - 1])
    /\ response = NoResponse
    /\ report = <<>>

SpecConc == InitConc /\ [][Next]_vars

\* grammar_check_resume, called on its own: the selection branch that would
\* call it from the page is commented out (lines 279-280).
InitGrammar ==
    /\ Idle([s \in Sessions |-> 0])
    /\ response \in GrammarResponses
    /\ report = <<>>

CheckGrammar ==
    /\ report = <<>>
    /\ report' = grammar_check_resume(response)
    /\ UNCHANGED <<files, pc, remaining, uploaded_job, resume_file, job_file, resume_text,
                   job_description, session_state, shown, event, state_before, calls,
                   error, response>>

NextGrammar == CheckGrammar

SpecGrammar == InitGrammar /\ [][NextGrammar]_vars

\* ------------------------------------------------------------ properties
\* The selection the session state records, and its transcript.
PrevKind(ss) == Get(ss, "prev_analysis_type", None)
Transcript(ss) == Get(ss, "messages", <<>>)
AllCallsOk(s) == \A i \in DOMAIN calls[s] : calls[s][i].reply.ok

\* C1: a pass that records a selection other than the one the pass before it
\* recorded leaves neither a stored result nor a stored transcript, so no turn
\* made under the earlier selection outlives the switch.
C1_KindChangeClears ==
    \A s \in Sessions :
        PrevKind(session_state[s]) # PrevKind(state_before[s]) =>
            /\ "result" \notin DOMAIN session_state[s]
            /\ "messages" \notin DOMAIN session_state[s]

\* C1 happens: a session with a transcript of at least one question and answer
\* under one kind has switched to another kind.
C1_SwitchedWithTranscript ==
    \E s \in Sessions :
        /\ Len(Transcript(state_before[s])) >= 2
        /\ PrevKind(state_before[s]) \in KindSet
        /\ PrevKind(session_state[s]) \in KindSet \ {PrevKind(state_before[s])}
        /\ "messages" \notin DOMAIN session_state[s]

\* C2: for each of the seven kinds, a pass in which "Generate Analysis" was
\* pressed and every model call succeeded ends with a result stored and the
\* transcript equal to the empty sequence.
C2_GenerateStoresResult ==
    \A s \in Sessions :
        (event[s].button /\ event[s].analysis_type \in KindSet /\ AllCallsOk(s)) =>
            /\ "result" \in DOMAIN session_state[s]
            /\ "messages" \in DOMAIN session_state[s]
            /\ session_state[s]["messages"] = <<>>

\* C3: a follow-up question whose model call succeeds makes exactly one call,
\* whose prompt holds the question, the resume text and the job text and
\* nothing of the transcript, and extends the transcript by the user turn with
\* the question and then the assistant turn with the reply.
C3_FollowUpAppendsPair ==
    \A s \in Sessions :
        (event[s].user_question # <<>> /\ error[s] = None) =>
            LET q == event[s].user_question
                old == Transcript(state_before[s])
                new == Transcript(session_state[s])
            IN  /\ Len(calls[s]) = 1
                /\ calls[s][1].prompt =
                       [template |-> "follow_up", industry |-> <<>>, question |-> q,
                        resume |-> resume_text[s], job |-> job_description[s]]
                /\ Len(new) = Len(old) + 2
                /\ SubSeq(new, 1, Len(old)) = old
                /\ new[Len(old) + 1] = [role |-> "user", content |-> q]
                /\ new[Len(old) + 2] =
                       [role |-> "assistant", content |-> calls[s][1].reply.text]

\* C3 happens: a follow-up was answered on top of an earlier question and answer.
C3_AnsweredAfterEarlierTurns ==
    \E s \in Sessions :
        /\ event[s].user_question # <<>>
        /\ error[s] = None
        /\ Len(Transcript(state_before[s])) >= 2
        /\ Len(Transcript(session_state[s])) >= 4

\* C9: the stored transcript always is a sequence of (user, assistant) pairs.
C9_TranscriptIsPairs ==
    \A s \in Sessions :
        LET t == Transcript(session_state[s])
        IN  /\ Len(t) % 2 = 0
            /\ \A i \in DOMAIN t :
                   t[i].role = IF i % 2 = 1 THEN "user" ELSE "assistant"

\* C10: a result is stored exactly when a transcript is stored (both come from
\* the same generate, both go with the same change of kind), so the chat region
\* never reads a missing transcript.
C10_ResultHasTranscript ==
    \A s \in Sessions :
        /\ "result" \in DOMAIN session_state[s] <=> "messages" \in DOMAIN session_state[s]
        /\ error[s] # "AttributeError"

\* C10 happens: a pass that a failed model call ended has left a result stored.
C10_ResultAfterFailedPass ==
    \E s \in Sessions :
        /\ error[s] = "ModelError"
        /\ "result" \in DOMAIN session_state[s]
        /\ "messages" \in DOMAIN session_state[s]

\* The extensions extract_text_from_file reads, and a path's last component.
SupportedExts == {pdf, docx, txt}
Ext(path) == path[Len(path)]
IsSupported(path) == Len(path) >= 2 /\ Lower(Ext(path)) \in SupportedExts

\* C4: for a path that ends in .pdf, .docx or .txt in any letter case,
\* extract_text_from_file returns and does not raise, whatever the file holds.
C4_SupportedNeverRaises ==
    \A path \in DOMAIN files :
        IsSupported(path) => extract_text_from_file(files, path).raised = None

\* Paths that end in none of .pdf, .docx, .txt.
OtherPaths ==
    { << <<"r", "e", "s", "u", "m", "e">>, rtf >>,
      << <<"r", "e", "s", "u", "m", "e">> >>,
      << <<"p", "d", "f">> >>,
      << <<"c", "v">>, pdf, <<"b", "a", "k">> >>,
      << <<"c", "v">>, <<"p", "d", "f", "x">> >>,
      << temp_resume, <<"R", "T", "F">> >> }

\* C5: extract_text_from_file raises the unsupported-format error for a path
\* that ends in none of .pdf, .docx, .txt; a pass it ends that way has made no
\* model call and has left the session state as it found it; and a pass gets to
\* the code that calls the model only with both files extracted.
C5_UnsupportedEndsPass ==
    /\ \A path \in OtherPaths \cup {p \in DOMAIN files : ~IsSupported(p)} :
           extract_text_from_file(files, path).raised = "ValueError"
    /\ \A s \in Sessions :
           /\ error[s] = "ValueError" =>
                  /\ calls[s] = <<>>
                  /\ session_state[s] = state_before[s]
                  /\ event[s] = NoEvent
                  /\ ~IsSupported(resume_file[s]) \/ ~IsSupported(job_file[s])
           /\ (pc[s] = "render" \/ calls[s] # <<>> \/ event[s] # NoEvent) =>
                  IsSupported(resume_file[s]) /\ IsSupported(job_file[s])

\* C5 happens: a session that has a result and a transcript stored ran a pass
\* whose resume was read and whose job file was a .rtf.
C5_RtfJobAfterResult ==
    \E s \in Sessions :
        /\ error[s] = "ValueError"
        /\ pc[s] = "idle"
        /\ resume_text[s] # <<>>
        /\ Ext(job_file[s]) = rtf
        /\ "result" \in DOMAIN session_state[s]
        /\ Len(Transcript(session_state[s])) >= 1

\* label is str without its leading and trailing whitespace.
IsTrimOf(label, str) ==
    \E i \in 1..(Len(str) + 1), j \in 0..Len(str) :
        /\ label = SubSeq(str, i, j)
        /\ \A k \in 1..(i - 1) : str[k] \in Whitespace
        /\ \A k \in (j + 1)..Len(str) : str[k] \in Whitespace
        /\ label # <<>> => label[1] \notin Whitespace /\ label[Len(label)] \notin Whitespace

\* C6: the industry pipeline calls the model with a prompt that holds the job
\* description only; once that call has returned, and only then, it calls again
\* with a prompt whose label is the first reply trimmed (empty or not), and the
\* stored result is the second reply as it came.
C6_IndustryPipeline ==
    \A s \in Sessions :
        (event[s].button /\ event[s].analysis_type = "Industry-Specific Feedback") =>
            /\ Len(calls[s]) \in {1, 2}
            /\ calls[s][1].prompt =
                   [template |-> "industry_prompt", industry |-> <<>>, question |-> <<>>,
                    resume |-> <<>>, job |-> job_description[s]]
            /\ Len(calls[s]) = 2 <=> calls[s][1].reply.ok
            /\ Len(calls[s]) = 2 =>
                   /\ IsTrimOf(calls[s][2].prompt.industry, calls[s][1].reply.text)
                   /\ calls[s][2].prompt =
                          [template |-> "feedback_prompt",
                           industry |-> calls[s][2].prompt.industry, question |-> <<>>,
                           resume |-> resume_text[s], job |-> job_description[s]]
                   /\ IF calls[s][2].reply.ok
                      THEN /\ error[s] = None
                           /\ session_state[s]["result"] = calls[s][2].reply.text
                      ELSE error[s] = "ModelError"

\* C6 happens: the first reply was whitespace only, the label is empty, and the
\* second call was made and its reply stored, whitespace and all.
C6_EmptyLabelSecondCall ==
    \E s \in Sessions :
        /\ event[s].button
        /\ event[s].analysis_type = "Industry-Specific Feedback"
        /\ Len(calls[s]) = 2
        /\ calls[s][1].reply.text = <<" ">>
        /\ calls[s][2].prompt.industry = <<>>
        /\ error[s] = None
        /\ session_state[s]["result"] = <<" ", "T", " ", "H", "\n">>

\* The extensions of the files users upload, whatever their case.
UploadExts ==
    { Ext(u.name) : u \in UNION { ResumeUploads(s) \cup JobUploads(s) : s \in Sessions } }
Other(s) == CHOOSE t \in Sessions : t # s
Words(text) == { text[i] : i \in DOMAIN text }

\* C7: a temp file's name is its slot and the upload's extension and nothing
\* else, so two sessions whose resume uploads have the same extension write
\* and read one and the same file, and a session in the middle of its pass
\* does not keep the other from starting one.
C7_TempNamesShared ==
    /\ \A path \in DOMAIN files :
           /\ Len(path) = 2
           /\ path[1] \in {temp_resume, temp_job}
           /\ path[2] \in UploadExts
    /\ \A s \in Sessions :
           /\ pc[s] # "idle" => resume_file[s] \in DOMAIN files
           /\ (pc[s] # "idle" /\ pc[Other(s)] # "idle"
                   /\ Ext(resume_file[s]) = Ext(resume_file[Other(s)])) =>
                  resume_file[s] = resume_file[Other(s)]
           /\ (pc[s] \in {"save_job", "extract_resume"} /\ pc[Other(s)] = "idle"
                   /\ remaining[Other(s)] > 0) =>
                  ENABLED BeginPass(Other(s))

\* C7 happens: a session has sent the model a prompt that holds the resume the
\* other session uploaded.
C7_ForeignResumeSent ==
    \E s \in Sessions :
        /\ calls[s] # <<>>
        /\ ResumeWord(Other(s)) \in Words(calls[s][1].prompt.resume)
        /\ ResumeWord(s) \notin Words(calls[s][1].prompt.resume)

\* The message mentions "whitespace" in some letter case.
MentionsWhitespace(message) ==
    LET lower == <<"w", "h", "i", "t", "e", "s", "p", "a", "c", "e">>
        upper == <<"W", "H", "I", "T", "E", "S", "P", "A", "C", "E">>
    IN  \E at \in 0..Len(message) :
            /\ at + 10 <= Len(message)
            /\ \A j \in 1..10 : message[at + j] \in {lower[j], upper[j]}

\* The matches of the response that have a replacement and do not mention
\* whitespace, in the order of the response, each as its report entry.
SurvivingEntries(ms) ==
    LET Message(m) == IF "message" \in DOMAIN m THEN m.message ELSE <<>>
        Fixes(m) == IF "replacements" \in DOMAIN m THEN m.replacements ELSE <<>>
        Where(m) == IF "context" \in DOMAIN m THEN m.context ELSE Context(<<>>, 0, 0)
        Survives(m) == Fixes(m) # <<>> /\ ~MentionsWhitespace(Message(m))
        kept == SelectSeq(ms, Survives)
    IN  [i \in 1..Len(kept) |->
            Issue(Message(kept[i]), Fixes(kept[i]), Where(kept[i]).text,
                  Where(kept[i]).offset, Where(kept[i]).length)]

\* C8: the report of grammar_check_resume lists exactly the matches that have
\* a replacement and whose message does not mention whitespace in any letter
\* case, in the order of the matches; with no such match it is the fixed text.
C8_ReportListsSurvivors ==
    (report # <<>> /\ response.ok /\ "matches" \in DOMAIN response.json) =>
        LET entries == SurvivingEntries(response.json.matches)
        IN  IF entries = <<>>
            THEN report = <<"No major grammar issues found!">>
            ELSE report = <<"### Grammar Issues Found:", "\n", "\n">>
                              \o Join(entries, <<"\n">>)

\* C8 happens: a response of two matches, the first mentioning "Whitespace",
\* the second kept, has been reported.
C8_ReportedMixedMatches ==
    /\ report # <<>>
    /\ response.ok
    /\ "matches" \in DOMAIN response.json
    /\ Len(response.json.matches) = 2
    /\ "message" \in DOMAIN response.json.matches[1]
    /\ response.json.matches[1].message = <<"W", "h", "i", "t", "e", "s", "p", "a", "c", "e">>
    /\ Len(SurvivingEntries(response.json.matches)) = 1
    /\ report # NoIssuesReport

====
